---------------------------- MODULE Spec2Model ----------------------------
(***************************************************************************)
(* A model of the two catalog maintenance scripts:                         *)
(*   temp_analyze_rules.py       scan rule directories, build entries,     *)
(*                               merge them into meta.json                 *)
(*   meta_json_i18n_converter.py check paths, wrap name/description into   *)
(*                               language-keyed mappings, save             *)
(*                                                                         *)
(* Python strings are sequences of one-character strings.  Python values   *)
(* whose type matters (str / None / list / dict / missing key) are records *)
(* tagged by the field t.                                                  *)
(***************************************************************************)
EXTENDS Integers, Sequences, FiniteSets, TLC

VARIABLES
    \* which script / function this behaviour exercises
    mode,
    \* ---- generate_rule_entry (with extract_tech_stack_from_dirname) ----
    bpc,            \* "input" | "built"
    rule_dir,       \* argument rule_dir
    rule_files,     \* argument rule_files
    clean_name,     \* local clean_name of extract_tech_stack_from_dirname
    tech_parts,     \* local tech_parts of extract_tech_stack_from_dirname
    entry,          \* the returned entry
    \* ---- main of temp_analyze_rules.py ----
    mpc,            \* "start" | "loop" | "done" | "crashed"
    metaFile,       \* resources/rules/meta.json: [ok |-> FALSE] or [ok |-> TRUE, data |-> ...]
    rulesRoot,      \* awesome-cursorrules/rules: [listable, items]
    meta_data,      \* local meta_data
    existing_rule_ids,  \* local existing_rule_ids
    new_rules,      \* local new_rules
    todo,           \* items of os.listdir(RULES_DIR) the loop has not reached yet
    loaded_rules,   \* history: meta_data["rules"] as read_existing_meta returned it
    runs,           \* completed runs of the script
    \* ---- extract_mdc_info ----
    xpc,            \* "input" | "returned"
    mdc_file,       \* the file at file_path: [readable, content, yaml]
    mdc_result,     \* the returned pair: [description, globs]
    \* ---- convert_to_multilingual ----
    vpc,            \* "input" | "once" | "twice"
    conv_in,        \* argument meta_data
    conv_once,      \* convert_to_multilingual(conv_in)
    conv_twice,     \* convert_to_multilingual(conv_once)
    \* ---- check_file_paths ----
    kpc,            \* "input" | "returned"
    chk_meta,       \* argument meta_data
    chk_disk,       \* the file system: [dirs, files], paths from the working directory
    issues,         \* the returned list
    \* ---- main of meta_json_i18n_converter.py ----
    cpc,            \* "load" | "check" | "prompt" | "convert" | "save" | "done" | "returned" | "crashed"
    meta_json,      \* resources/rules/meta.json: [ok |-> FALSE] or [ok |-> TRUE, data |-> ...]
    disk,           \* the file system: [dirs, files]
    c_meta_data,    \* local meta_data
    path_issues,    \* local path_issues
    response,       \* local response
    i18n_meta,      \* local i18n_meta
    meta_i18n_json  \* resources/rules/meta_i18n.json

builderVars == <<bpc, rule_dir, rule_files, clean_name, tech_parts, entry>>

mergerVars == <<mpc, metaFile, rulesRoot, meta_data, existing_rule_ids, new_rules,
                todo, loaded_rules, runs>>

extractVars == <<xpc, mdc_file, mdc_result>>

convertVars == <<vpc, conv_in, conv_once, conv_twice>>

checkVars == <<kpc, chk_meta, chk_disk, issues>>

converterVars == <<cpc, meta_json, disk, c_meta_data, path_issues, response, i18n_meta,
                   meta_i18n_json>>

vars == <<mode, builderVars, mergerVars, extractVars, convertVars, checkVars, converterVars>>

-----------------------------------------------------------------------------
(* Bounds of the model *)

\* directory base names are concatenations of at most MaxPieces pieces
MaxPieces == 3

\* the rules root holds at most MaxDirs items
MaxDirs == 2

\* the catalog on disk holds at most MaxRules entries before the first run
MaxRules == 2

\* the merge script is run at most MaxRuns times in a row
MaxRuns == 2

\* the text after the front matter is made of at most MaxBodyTokens tokens
MaxBodyTokens == 3

\* a catalog given to convert_to_multilingual holds at most MaxConvRules
\* entries, each with at most MaxConvFiles file records
MaxConvRules == 2

MaxConvFiles == 1

\* a catalog given to check_file_paths holds at most MaxChkRules entries
MaxChkRules == 2

\* the catalog the converter script loads holds at most MaxMainRules entries
MaxMainRules == 2

-----------------------------------------------------------------------------
(* Python str helpers *)

LowerLetters == <<"a","b","c","d","e","f","g","h","i","j","k","l","m","n","o","p","q","r","s","t","u","v","w","x","y","z">>

UpperLetters == <<"A","B","C","D","E","F","G","H","I","J","K","L","M","N","O","P","Q","R","S","T","U","V","W","X","Y","Z">>

IsLower(c) == \E i \in 1..Len(LowerLetters) : LowerLetters[i] = c

IsUpper(c) == \E i \in 1..Len(UpperLetters) : UpperLetters[i] = c

IsCased(c) == IsLower(c) \/ IsUpper(c)

LowerChar(c) ==
    IF IsUpper(c)
    THEN LowerLetters[CHOOSE i \in 1..Len(UpperLetters) : UpperLetters[i] = c]
    ELSE c

UpperChar(c) ==
    IF IsLower(c)
    THEN UpperLetters[CHOOSE i \in 1..Len(LowerLetters) : LowerLetters[i] = c]
    ELSE c

\* str.lower()
Lower(s) == [i \in 1..Len(s) |-> LowerChar(s[i])]

\* str.capitalize(): first character upper-cased, the rest lower-cased
Capitalize(s) == [i \in 1..Len(s) |-> IF i = 1 THEN UpperChar(s[i]) ELSE LowerChar(s[i])]

\* str.title(): a cased character is upper-cased when it does not follow a
\* cased character, lower-cased when it does
Title(s) ==
    [i \in 1..Len(s) |->
        IF i > 1 /\ IsCased(s[i-1]) THEN LowerChar(s[i]) ELSE UpperChar(s[i])]

Drop(s, n) == SubSeq(s, n + 1, Len(s))

StartsWith(s, p) == Len(p) <= Len(s) /\ SubSeq(s, 1, Len(p)) = p

EndsWith(s, p) == Len(p) <= Len(s) /\ SubSeq(s, Len(s) - Len(p) + 1, Len(s)) = p

\* s.replace(old, new) for a non-empty old: left to right, non-overlapping,
\* the replacement text is not rescanned
RECURSIVE Replace(_, _, _)
Replace(s, old, new) ==
    IF s = <<>> THEN <<>>
    ELSE IF StartsWith(s, old) THEN new \o Replace(Drop(s, Len(old)), old, new)
    ELSE <<s[1]>> \o Replace(Tail(s), old, new)

\* s.split(sep) for a one-character sep: always at least one part
RECURSIVE Split(_, _)
Split(s, sep) ==
    IF \A i \in 1..Len(s) : s[i] # sep THEN <<s>>
    ELSE LET k == CHOOSE i \in 1..Len(s) :
                      s[i] = sep /\ \A j \in 1..(i-1) : s[j] # sep
         IN  <<SubSeq(s, 1, k - 1)>> \o Split(Drop(s, k), sep)

\* str(n) for n >= 0
Digits == <<"0","1","2","3","4","5","6","7","8","9">>

RECURSIVE IntToStr(_)
IntToStr(n) ==
    IF n < 10 THEN <<Digits[n + 1]>>
    ELSE IntToStr(n \div 10) \o <<Digits[(n % 10) + 1]>>

\* os.path.join(a, b) for a relative b
PathJoin(a, b) == IF a = <<>> THEN b ELSE IF EndsWith(a, <<"/">>) THEN a \o b ELSE a \o <<"/">> \o b

\* os.path.basename(p): what follows the last "/"
Basename(p) ==
    IF \A i \in 1..Len(p) : p[i] # "/" THEN p
    ELSE LET k == CHOOSE i \in 1..Len(p) :
                      p[i] = "/" /\ \A j \in (i+1)..Len(p) : p[j] # "/"
         IN  Drop(p, k)

\* os.path.relpath(p, start) for a p that lies below start
Relpath(p, start) ==
    IF StartsWith(p, start \o <<"/">>) THEN Drop(p, Len(start) + 1) ELSE p

-----------------------------------------------------------------------------
(* temp_analyze_rules.py: constants *)

RULES_DIR == <<"a","w","e","s","o","m","e","-","c","u","r","s","o","r","r","u","l","e","s","/","r","u","l","e","s">>

\* the literal of lines 22 and 129
SUFFIX == <<"-","c","u","r","s","o","r","r","u","l","e","s","-","p","r","o","m","p","t","-","f","i","l","e">>

lang_keywords ==
    {  <<"t","y","p","e","s","c","r","i","p","t">>,
       <<"j","a","v","a","s","c","r","i","p","t">>,
       <<"p","y","t","h","o","n">>,
       <<"p","h","p">>,
       <<"s","o","l","i","d","i","t","y">>,
       <<"c","#">>,
       <<"c","s","h","a","r","p">>,
       <<"r","u","s","t">>,
       <<"g","o">> }

framework_keywords ==
    {  <<"r","e","a","c","t">>,
       <<"a","n","g","u","l","a","r">>,
       <<"v","u","e">>,
       <<"n","e","x","t","j","s">>,
       <<"f","a","s","t","a","p","i">>,
       <<"f","l","a","s","k">>,
       <<"d","j","a","n","g","o">>,
       <<"l","a","r","a","v","e","l">>,
       <<"e","x","p","r","e","s","s">>,
       <<"n","e","s","t","j","s">>,
       <<"t","a","i","l","w","i","n","d">>,
       <<"s","h","a","d","c","n">>,
       <<"s","v","e","l","t","e","k","i","t">>,
       <<"s","v","e","l","t","e">>,
       <<"q","w","i","k">>,
       <<"s","o","l","i","d">> }

tool_keywords ==
    {  <<"v","i","t","e">>,
       <<"w","e","b","p","a","c","k">>,
       <<"j","e","s","t">>,
       <<"c","y","p","r","e","s","s">>,
       <<"s","t","o","r","y","b","o","o","k">>,
       <<"p","w","a">>,
       <<"v","e","r","c","e","l">>,
       <<"n","e","t","l","i","f","y">>,
       <<"s","u","p","a","b","a","s","e">>,
       <<"m","o","n","g","o","d","b">>,
       <<"f","i","r","e","b","a","s","e">> }

-----------------------------------------------------------------------------
(* extract_tech_stack_from_dirname *)

\* re.sub(r'-cursorrules-prompt-file/?$', '', dirname): the match is anchored
\* at the end of the string ($ also matches before one final newline), so at
\* most one occurrence, the trailing one, is removed
SuffixMatchAt(dirname, i) ==
    LET rest == Drop(dirname, i - 1)
    IN  /\ StartsWith(rest, SUFFIX)
        /\ LET after == Drop(rest, Len(SUFFIX))
               tail  == IF after # <<>> /\ after[1] = "/" THEN Tail(after) ELSE after
           IN  tail \in {<<>>, <<"\n">>}

CleanName(dirname) ==
    IF \E i \in 1..Len(dirname) : SuffixMatchAt(dirname, i)
    THEN LET i     == CHOOSE j \in 1..Len(dirname) :
                          SuffixMatchAt(dirname, j)
                          /\ \A k \in 1..(j-1) : ~SuffixMatchAt(dirname, k)
             rest  == Drop(dirname, i - 1 + Len(SUFFIX))
             slash == IF rest # <<>> /\ rest[1] = "/" THEN 1 ELSE 0
         IN  SubSeq(dirname, 1, i - 1) \o Drop(rest, slash)
    ELSE dirname

\* the loop body of lines 38-53 for one part: which list it goes to, and as what
FrameworkName(part) ==
    IF part = <<"n","e","x","t","j","s">> THEN <<"N","e","x","t",".","j","s">>
    ELSE IF part = <<"n","e","s","t","j","s">> THEN <<"N","e","s","t","J","S">>
    ELSE IF part = <<"f","a","s","t","a","p","i">> THEN <<"F","a","s","t","A","P","I">>
    ELSE Capitalize(part)

RECURSIVE ClassifyParts(_, _)
ClassifyParts(parts, acc) ==
    IF parts = <<>> THEN acc
    ELSE LET part == Lower(Head(parts))
             next == IF part \in lang_keywords
                     THEN [acc EXCEPT !.languages = Append(@, Capitalize(part))]
                     ELSE IF part \in framework_keywords
                     THEN [acc EXCEPT !.frameworks = Append(@, FrameworkName(part))]
                     ELSE IF part \in tool_keywords
                     THEN [acc EXCEPT !.tools = Append(@, Capitalize(part))]
                     ELSE acc
         IN  ClassifyParts(Tail(parts), next)

extract_tech_stack_from_dirname(dirname) ==
    ClassifyParts(Split(CleanName(dirname), "-"),
                  [languages |-> <<>>, frameworks |-> <<>>, tools |-> <<>>])

-----------------------------------------------------------------------------
(* Python values *)

Str(s)  == [t |-> "str", v |-> s]

PyNone  == [t |-> "none"]

\* some non-empty list
PyList  == [t |-> "list"]

\* a key that the mapping does not have
Absent  == [t |-> "absent"]

\* bool(v)
Truthy(v) == ~(v.t = "none" \/ (v.t = "str" /\ v.v = <<>>))

-----------------------------------------------------------------------------
(* extract_mdc_info *)

DEFAULT_GLOBS == Str(<<"*","*","/","*",".","*">>)

\* \s of the regular expressions, and what str.strip() removes
IsSpace(c) == c \in {" ", "\t", "\n", "\r", "\f"}

AllSpace(s, from, to) == \A i \in from..to : IsSpace(s[i])

\* str.strip()
Strip(s) ==
    IF AllSpace(s, 1, Len(s)) THEN <<>>
    ELSE LET a == CHOOSE i \in 1..Len(s) : ~IsSpace(s[i]) /\ AllSpace(s, 1, i - 1)
             b == CHOOSE i \in 1..Len(s) : ~IsSpace(s[i]) /\ AllSpace(s, i + 1, Len(s))
         IN  SubSeq(s, a, b)

\* r'^---\s*\n(.*?)\n---\s*\n' with re.DOTALL, matched at position 0:
\*   k spaces after the opening ---, then a newline; the group is s[g..j-1];
\*   at j a newline and the closing ---, then m spaces and a newline.
FmOpen(s, k) ==
    /\ StartsWith(s, <<"-","-","-">>)
    /\ 4 + k <= Len(s)
    /\ AllSpace(s, 4, 3 + k)
    /\ s[4 + k] = "\n"

FmClose(s, j, m) ==
    /\ j + 4 + m <= Len(s)
    /\ s[j] = "\n"
    /\ SubSeq(s, j + 1, j + 3) = <<"-","-","-">>
    /\ AllSpace(s, j + 4, j + 3 + m)
    /\ s[j + 4 + m] = "\n"

FmMatches(s, k, j) == FmOpen(s, k) /\ j >= 5 + k /\ \E m \in 0..Len(s) : FmClose(s, j, m)

\* the match the backtracking engine finds first: \s* greedy (largest k that
\* leads to a match), the group lazy (smallest j), the last \s* greedy
FmGreedyOpen(s) ==
    CHOOSE a \in 0..Len(s) :
        /\ \E j \in 1..Len(s) : FmMatches(s, a, j)
        /\ \A b \in (a+1)..Len(s) : \A j \in 1..Len(s) : ~FmMatches(s, b, j)

FmLazyGroupEnd(s, k) ==
    CHOOSE a \in 1..Len(s) : FmMatches(s, k, a) /\ \A b \in 1..(a-1) : ~FmMatches(s, k, b)

FmGreedyClose(s, j) ==
    CHOOSE a \in 0..Len(s) : FmClose(s, j, a) /\ \A b \in (a+1)..Len(s) : ~FmClose(s, j, b)

FmFound(s, k, j) ==
    [found |-> TRUE, group |-> SubSeq(s, 5 + k, j - 1), end |-> j + 4 + FmGreedyClose(s, j)]

FmFoundFrom(s, k) == FmFound(s, k, FmLazyGroupEnd(s, k))

FrontmatterMatch(s) ==
    IF \E k \in 0..Len(s), j \in 1..Len(s) : FmMatches(s, k, j)
    THEN FmFoundFrom(s, FmGreedyOpen(s))
    ELSE [found |-> FALSE, group |-> <<>>, end |-> 0]

\* re.sub(r'^#+\s*', '', line)
HashRun(line) ==
    CHOOSE i \in 1..Len(line) :
        /\ \A x \in 1..i : line[x] = "#"
        /\ (i = Len(line) \/ line[i + 1] # "#")

SpaceRunAfter(line, h) ==
    CHOOSE i \in h..Len(line) :
        /\ AllSpace(line, h + 1, i)
        /\ (i = Len(line) \/ ~IsSpace(line[i + 1]))

StripHashes(line) ==
    IF line # <<>> /\ line[1] = "#"
    THEN Drop(line, SpaceRunAfter(line, HashRun(line)))
    ELSE line

\* lines 88-93: the first line that is not blank, without its # markers.
\* [found |-> FALSE] when every line is blank (description stays as it was).
FirstNonBlank(lines) ==
    CHOOSE a \in 1..Len(lines) :
        Strip(lines[a]) # <<>> /\ \A b \in 1..(a-1) : Strip(lines[b]) = <<>>

TitleOfLines(lines) ==
    IF \E i \in 1..Len(lines) : Strip(lines[i]) # <<>>
    THEN [found |-> TRUE, title |-> StripHashes(Strip(lines[FirstNonBlank(lines)]))]
    ELSE [found |-> FALSE, title |-> <<>>]

\* lines 84-85: the second use of the same regular expression, in re.sub
FirstTitle(content, fm) ==
    TitleOfLines(Split(Strip(IF fm.found THEN Drop(content, fm.end) ELSE content), "\n"))

\* frontmatter.get(key, default) on a parsed mapping
MapGet(frontmatter, key, default) ==
    IF key = "description"
    THEN (IF frontmatter.description = Absent THEN default ELSE frontmatter.description)
    ELSE (IF frontmatter.globs = Absent THEN default ELSE frontmatter.globs)

EmptyMap == [t |-> "map", description |-> Absent, globs |-> Absent]

\* file: [readable, content, yaml]; yaml is what yaml.safe_load makes of the
\* front-matter text: [t |-> "raise"], a mapping [t |-> "map", ...], or a
\* value of another type (None, a scalar, a list).
\* Lines 76-79: frontmatter is assigned before .get() is called on it, so a
\* value that is no mapping stays in frontmatter; the bare except swallows the
\* AttributeError.
FrontmatterOf(file, fm) ==
    IF fm.found /\ file.yaml.t # "raise" THEN file.yaml ELSE EmptyMap

\* lines 77 and 82-93 without the fall-back to the first line of the text
DescriptionNoFallback(frontmatter, first) ==
    IF frontmatter.t = "map" THEN MapGet(frontmatter, "description", Str(<<>>)) ELSE Str(<<>>)

\* lines 77 and 82-93
DescriptionOf(frontmatter, first) ==
    LET description == IF frontmatter.t = "map"
                       THEN MapGet(frontmatter, "description", Str(<<>>))
                       ELSE Str(<<>>)
    IN  IF ~Truthy(description) /\ first.found THEN Str(first.title) ELSE description

\* line 95 calls .get() on frontmatter again, outside the inner try: on a
\* value that is no mapping the outer handler of lines 96-98 returns
\* "", "**/*.*" and the description found at lines 82-93 is lost
ExtractResult(frontmatter, first) ==
    IF frontmatter.t = "map"
    THEN [ description |-> DescriptionOf(frontmatter, first),
           globs       |-> MapGet(frontmatter, "globs", DEFAULT_GLOBS) ]
    ELSE [description |-> Str(<<>>), globs |-> DEFAULT_GLOBS]

ExtractWithMatch(file, fm) ==
    ExtractResult(FrontmatterOf(file, fm), FirstTitle(file.content, fm))

extract_mdc_info(file) ==
    IF ~file.readable
    THEN [description |-> Str(<<>>), globs |-> DEFAULT_GLOBS]
    ELSE ExtractWithMatch(file, FrontmatterMatch(file.content))

-----------------------------------------------------------------------------
(* scan_rule_directory *)

MDC_EXT == <<".","m","d","c">>

\* dir: [name, isdir, listable, files]; files is os.listdir's answer, each
\* [name, readable, content, yaml].  dir_path is its path below the working
\* directory.  A listing that fails is caught at lines 120-121.
ScanRecord(dir_path, f, info) ==
    [ file        |-> f.name,
      path        |-> Relpath(PathJoin(dir_path, f.name), RULES_DIR),
      description |-> info.description,
      globs       |-> info.globs,
      id          |-> Lower(SubSeq(f.name, 1, Len(f.name) - Len(MDC_EXT))) ]

ScanOne(dir_path, f) == ScanRecord(dir_path, f, extract_mdc_info(f))

RECURSIVE ScanFiles(_, _)
ScanFiles(dir_path, listing) ==
    IF listing = <<>> THEN <<>>
    ELSE (IF EndsWith(Head(listing).name, MDC_EXT) /\ ~StartsWith(Head(listing).name, <<".">>)
          THEN <<ScanOne(dir_path, Head(listing))>> ELSE <<>>)
         \o ScanFiles(dir_path, Tail(listing))

scan_rule_directory(dir_path, dir) ==
    IF dir.listable THEN ScanFiles(dir_path, dir.files) ELSE <<>>

-----------------------------------------------------------------------------
(* generate_rule_entry *)

\* the non-ASCII literals of lines 140, 142 and 148, as atoms
\* (one atom per character, named by its code point)
TXT_CONTAINS   == <<"U+5305", "U+542B">>
TXT_FILES_OF   == <<"U+4E2A", "U+89C4", "U+5219", "U+6587", "U+4EF6", "U+7684">>
TXT_STACK_SET  == <<"U+6280", "U+672F", "U+6808", "U+89C4", "U+5219", "U+96C6">>
TXT_RULE_SET   == <<" ", "U+89C4", "U+5219", "U+96C6">>

\* line 129: str.replace removes every occurrence of the literal
RuleId(base_dir_name) == Replace(base_dir_name, SUFFIX, <<>>)

\* lines 135-136
TagsOf(tech_stack) ==
    [i \in 1..(Len(tech_stack.languages) + Len(tech_stack.frameworks) + Len(tech_stack.tools)) |->
        Lower((tech_stack.languages \o tech_stack.frameworks \o tech_stack.tools)[i])]

\* lines 139-142
DescriptionFor(rule_id, files) ==
    IF files # <<>>
    THEN TXT_CONTAINS \o IntToStr(Len(files)) \o TXT_FILES_OF \o rule_id \o TXT_STACK_SET
    ELSE rule_id \o TXT_STACK_SET

\* lines 145-159
EntryOf(dir, files, rule_id, tech_stack) ==
    [ id          |-> rule_id,
      path        |-> Relpath(dir, RULES_DIR),
      name        |-> Title(Replace(rule_id, <<"-">>, <<" ">>)) \o TXT_RULE_SET,
      description |-> DescriptionFor(rule_id, files),
      techStack   |-> tech_stack,
      tags        |-> TagsOf(tech_stack),
      files       |-> [i \in 1..Len(files) |->
                          [path |-> files[i].path, description |-> files[i].description]] ]

generate_rule_entry(dir, files) ==
    EntryOf(dir, files, RuleId(Basename(dir)), extract_tech_stack_from_dirname(Basename(dir)))

-----------------------------------------------------------------------------
(* Inputs: rule-definition files, rule directories, catalogs *)

YamlMap(d, g) == [t |-> "map", description |-> d, globs |-> g]

FileWithFrontmatter ==
    [ name     |-> <<"m","a","i","n",".","m","d","c">>,
      readable |-> TRUE,
      content  |-> <<"-","-","-","\n","d","e","s","c","r","i","p","t","i","o","n",":"," ","d","\n","-","-","-","\n","#"," ","T","\n">>,
      yaml     |-> YamlMap(Str(<<"d">>), Absent) ]

FileWithTitle ==
    [ name     |-> <<"S","e","t","u","p",".","m","d","c">>,
      readable |-> TRUE,
      content  |-> <<"#"," ","M","y"," ","R","u","l","e","\n","B","o","d","y"," ","t","e","x","t">>,
      yaml     |-> PyNone ]

HiddenFile ==
    [ name     |-> <<".","h","i","d","d","e","n",".","m","d","c">>,
      readable |-> TRUE,
      content  |-> <<"x">>,
      yaml     |-> PyNone ]

OtherFile ==
    [ name     |-> <<"n","o","t","e","s",".","t","x","t">>,
      readable |-> TRUE,
      content  |-> <<"x">>,
      yaml     |-> PyNone ]

Dir(name, files) == [name |-> name, isdir |-> TRUE, listable |-> TRUE, files |-> files]

\* what the rules root may hold; three of the names give the id "go"
RootItems ==
    { Dir(<<"g","o">>, <<>>),
      Dir(<<"g","o">> \o SUFFIX, <<FileWithFrontmatter>>),
      Dir(<<"g","o">> \o SUFFIX \o SUFFIX, <<FileWithTitle, HiddenFile>>),
      Dir(<<"R","e","a","c","t","-","v","i","t","e">> \o SUFFIX, <<OtherFile, FileWithTitle, FileWithFrontmatter>>),
      [Dir(<<"n","e","x","t","j","s">> \o SUFFIX, <<>>) EXCEPT !.listable = FALSE],
      [Dir(<<"R","E","A","D","M","E",".","m","d">>, <<>>) EXCEPT !.isdir = FALSE] }

\* a directory holds each name once
RootListings ==
    { S \in SUBSET RootItems : Cardinality(S) <= MaxDirs }

\* an entry that an earlier run, or a hand, put into the catalog
ExistingEntry(id) ==
    [ id          |-> id,
      path        |-> id,
      name        |-> <<"o","l","d">>,
      description |-> <<"o","l","d">>,
      techStack   |-> [languages |-> <<>>, frameworks |-> <<>>, tools |-> <<>>],
      tags        |-> <<>>,
      files       |-> <<>> ]

ExistingIdPool == { <<"g","o">>, <<"R","e","a","c","t","-","v","i","t","e">>, <<"o","l","d">> }

Ids(rules) == { rules[i].id : i \in 1..Len(rules) }

DistinctIds(rules) == \A i, j \in 1..Len(rules) : rules[i].id = rules[j].id => i = j

\* catalogs keep the invariant of the data model: ids are unique
RuleSeqs ==
    { r \in UNION { [1..n -> { ExistingEntry(id) : id \in ExistingIdPool }] : n \in 0..MaxRules } :
        DistinctIds(r) }

Catalog(rules, date) ==
    [rules |-> rules, version |-> <<"1",".","0",".","0">>, lastUpdated |-> date]

DEFAULT_DATE == <<"2","0","2","3","-","0","7","-","1","2">>

\* datetime.now().strftime("%Y-%m-%d") on the days the script may run
Today == { <<"2","0","2","6","-","1","1","-","0","4">>, <<"2","0","2","6","-","1","1","-","0","5">> }

\* base names made of at most MaxPieces pieces
NamePieces == { <<"g","o">>, <<"-">>, SUFFIX, <<"R","e","a","c","t">>, <<"x">> }

RECURSIVE PieceNames(_)
PieceNames(n) ==
    IF n = 0 THEN { <<>> }
    ELSE LET shorter == PieceNames(n - 1)
         IN  shorter \cup { a \o b : a \in shorter, b \in NamePieces }

DirNames == PieceNames(MaxPieces) \ { <<>> }

\* what yaml.safe_load may make of a front-matter text
YamlResults ==
    { [t |-> "raise"], PyNone, Str(<<"k">>), PyList }
    \cup { YamlMap(d, g) : d \in { Absent, PyNone, Str(<<>>), Str(<<"d">>), PyList },
                           g \in { Absent, Str(<<"*",".","t","s">>) } }

\* how a rule-definition file may begin
Heads ==
    { <<>>,
      <<"-","-","-","\n","k","\n","-","-","-","\n">>,
      <<"-","-","-"," ","\n","\n","k","\n","-","-","-"," ","\n">>,
      <<"-","-","-","\n","k","\n","-","-","-">>,
      <<" ","-","-","-","\n","k","\n","-","-","-","\n">> }

BodyTokens == { <<"\n">>, <<"#">>, <<" ">>, <<"T">>, <<"-","-","-">> }

RECURSIVE Bodies(_)
Bodies(n) ==
    IF n = 0 THEN { <<>> }
    ELSE { a \o b : a \in Bodies(n - 1), b \in BodyTokens } \cup Bodies(n - 1)

MdcFiles ==
    { [readable |-> TRUE, content |-> h \o b, yaml |-> y] :
          h \in Heads, b \in Bodies(MaxBodyTokens), y \in YamlResults }
    \cup { [readable |-> FALSE, content |-> <<>>, yaml |-> PyNone] }

-----------------------------------------------------------------------------
(* read_existing_meta *)

read_existing_meta(file) ==
    IF file.ok THEN file.data ELSE Catalog(<<>>, DEFAULT_DATE)

-----------------------------------------------------------------------------
(* main of temp_analyze_rules.py *)

\* line 170
ExistingRuleIds(existing_rules) == Ids(existing_rules)

\* line 186 with the entry's path looked up in place of its id
IsNewRuleByPath(rule_entry, ids) == rule_entry.path \notin ids

\* line 186: the test is against the ids read at line 170, which the loop
\* does not update
IsNewRule(rule_entry, ids) == rule_entry.id \notin ids

\* line 190 with the new entries put in front
ExtendRulesInFront(rules, more) == more \o rules

\* line 190
ExtendRules(rules, more) == rules \o more

\* lines 166-174: read the catalog, collect its ids, list the rules root
MRead ==
    /\ mpc = "start"
    /\ meta_data' = read_existing_meta(metaFile)
    /\ loaded_rules' = meta_data'.rules
    /\ existing_rule_ids' = ExistingRuleIds(meta_data'.rules)
    /\ new_rules' = <<>>
    /\ IF rulesRoot.listable
       THEN mpc' = "loop" /\ todo' = rulesRoot.items
       ELSE mpc' = "crashed" /\ todo' = {}
    /\ UNCHANGED <<metaFile, rulesRoot, runs>>

\* lines 180-183 for one item of the listing
Candidate(item) ==
    generate_rule_entry(PathJoin(RULES_DIR, item.name),
                        scan_rule_directory(PathJoin(RULES_DIR, item.name), item))

\* lines 186-187
AddIfNew(rules, rule_entry, ids) ==
    IF IsNewRule(rule_entry, ids) THEN Append(rules, rule_entry) ELSE rules

\* lines 174-187: one iteration; os.listdir gives the items in any order
MLoopItem ==
    /\ mpc = "loop"
    /\ \E item \in todo :
          /\ todo' = todo \ {item}
          /\ new_rules' = IF item.isdir
                          THEN AddIfNew(new_rules, Candidate(item), existing_rule_ids)
                          ELSE new_rules
    /\ UNCHANGED <<mpc, metaFile, rulesRoot, meta_data, existing_rule_ids, loaded_rules, runs>>

\* lines 190-204: extend, stamp the date, write the file
MFinish ==
    /\ mpc = "loop"
    /\ todo = {}
    /\ \E date \in Today :
          meta_data' = [meta_data EXCEPT !.rules = ExtendRules(@, new_rules),
                                         !.lastUpdated = date]
    /\ metaFile' = [ok |-> TRUE, data |-> meta_data']
    /\ mpc' = "done"
    /\ runs' = runs + 1
    /\ UNCHANGED <<rulesRoot, existing_rule_ids, new_rules, todo, loaded_rules>>

\* the script is started again, on the files the last run left
MRerun ==
    /\ mpc = "done"
    /\ runs < MaxRuns
    /\ mpc' = "start"
    /\ UNCHANGED <<metaFile, rulesRoot, meta_data, existing_rule_ids, new_rules, todo,
                   loaded_rules, runs>>

-----------------------------------------------------------------------------
(* meta_json_i18n_converter.py *)

I18N_RULES_DIR == <<"r","e","s","o","u","r","c","e","s","/","r","u","l","e","s">>

\* a catalog entry as json.load gives it: a missing key is Absent; files is
\* Absent or FileList(<<file records>>)
FileList(fs) == [t |-> "files", v |-> fs]

Langs(codes) == [t |-> "langs", v |-> codes]

\* rule.get(key): None for a missing key
Get(v) == IF v = Absent THEN PyNone ELSE v

\* lines 41-50, 53-61, 69-77 with the isinstance test left out
WrapWhatever(v) ==
    IF v.t \in {"str", "dict"} THEN [t |-> "dict", zh |-> v, en |-> v] ELSE v

\* lines 41-50, 53-61, 69-77: a str becomes {"zh": s, "en": s}
WrapIfStr(v) ==
    IF Get(v).t = "str" THEN [t |-> "dict", zh |-> v, en |-> v] ELSE v

\* lines 67-79 with the description left as it is
CopyFile(file_item) == file_item

\* lines 67-79
ConvertFile(file_item) == [file_item EXCEPT !.description = WrapIfStr(@)]

\* lines 38-88
ConvertRule(rule) ==
    [rule EXCEPT !.name = WrapIfStr(@),
                 !.description = WrapIfStr(@),
                 !.files = IF @ = Absent THEN @
                           ELSE FileList([i \in 1..Len(@.v) |-> ConvertFile(@.v[i])])]

convert_to_multilingual(meta) ==
    [meta EXCEPT !.rules = [i \in 1..Len(meta.rules) |-> ConvertRule(meta.rules[i])],
                 !.supportedLanguages = Langs(<<"zh", "en">>)]

\* os.path.exists, os.path.isdir
Exists(fs, path) == path \in fs.dirs \cup fs.files

IsDir(fs, path) == path \in fs.dirs

\* line 109
PathIssue(rule) ==
    <<"R","u","l","e"," ","'">> \o rule.id \o <<"'",":"," ","P","a","t","h"," ","'">>
    \o rule.path.v \o <<"'"," ","d","o","e","s"," ","n","o","t"," ","e","x","i","s","t">>

\* line 124
FileIssue(rule, file_item) ==
    <<"R","u","l","e"," ","'">> \o rule.id \o <<"'",":"," ","F","i","l","e"," ","'">>
    \o file_item.path.v \o <<"'"," ","d","o","e","s"," ","n","o","t"," ","e","x","i","s","t">>

\* lines 118-121 with every file looked up below the base directory
FullFilePathBelowBase(rule, file_item, base_dir, fs) ==
    PathJoin(base_dir, file_item.path.v)

\* lines 118-121
FullFilePath(rule, file_item, base_dir, fs) ==
    IF Truthy(Get(rule.path)) /\ IsDir(fs, PathJoin(base_dir, rule.path.v))
    THEN PathJoin(PathJoin(base_dir, rule.path.v), file_item.path.v)
    ELSE PathJoin(base_dir, file_item.path.v)

\* lines 105-109
CheckRulePath(rule, base_dir, fs) ==
    IF Truthy(Get(rule.path)) /\ ~Exists(fs, PathJoin(base_dir, rule.path.v))
    THEN <<PathIssue(rule)>>
    ELSE <<>>

\* lines 113-124
RECURSIVE CheckFiles(_, _, _, _)
CheckFiles(rule, files, base_dir, fs) ==
    IF files = <<>> THEN <<>>
    ELSE (IF /\ Truthy(Get(Head(files).path))
             /\ ~Exists(fs, FullFilePath(rule, Head(files), base_dir, fs))
          THEN <<FileIssue(rule, Head(files))>>
          ELSE <<>>)
         \o CheckFiles(rule, Tail(files), base_dir, fs)

\* lines 103-124 for the rules from the first on
RECURSIVE CheckRules(_, _, _)
CheckRules(rules, base_dir, fs) ==
    IF rules = <<>> THEN <<>>
    ELSE CheckRulePath(Head(rules), base_dir, fs)
         \o (IF Head(rules).files = Absent THEN <<>>
             ELSE CheckFiles(Head(rules), Head(rules).files.v, base_dir, fs))
         \o CheckRules(Tail(rules), base_dir, fs)

\* the loop with a return at the first issue found
check_file_paths_first_issue(meta, base_dir, fs) ==
    IF CheckRules(meta.rules, base_dir, fs) = <<>> THEN <<>>
    ELSE <<Head(CheckRules(meta.rules, base_dir, fs))>>

check_file_paths(meta, base_dir, fs) == CheckRules(meta.rules, base_dir, fs)

\* line 146 with the test turned into "not a refusal"
ContinuesUnlessNo(resp) == Lower(resp) # <<"n">>

\* line 146: the conversion goes on only when response.lower() == 'y'
Continues(resp) == Lower(resp) = <<"y">>

\* load_meta_json, line 135: None and an empty document are both falsy
Loaded(file) == file.ok /\ file.data.t # "empty"

NotYet == [t |-> "notyet"]

\* lines 134-136
CLoad ==
    /\ cpc = "load"
    /\ c_meta_data' = IF meta_json.ok THEN meta_json.data ELSE PyNone
    /\ cpc' = IF Loaded(meta_json) THEN "check" ELSE "returned"
    /\ UNCHANGED <<meta_json, disk, path_issues, response, i18n_meta, meta_i18n_json>>

\* lines 139-144: a document without "rules" ends the script with a KeyError
CCheck ==
    /\ cpc = "check"
    /\ IF c_meta_data.t = "norules"
       THEN cpc' = "crashed" /\ UNCHANGED path_issues
       ELSE /\ path_issues' = check_file_paths(c_meta_data, I18N_RULES_DIR, disk)
            /\ cpc' = IF path_issues' # <<>> THEN "prompt" ELSE "convert"
    /\ UNCHANGED <<meta_json, disk, c_meta_data, response, i18n_meta, meta_i18n_json>>

\* what the operator may type
Responses == { <<"y">>, <<"Y">>, <<"n">>, <<"y","e","s">>, <<>> }

\* lines 145-147
CPrompt ==
    /\ cpc = "prompt"
    /\ \E typed \in Responses :
          /\ response' = typed
          /\ cpc' = IF Continues(typed) THEN "convert" ELSE "returned"
    /\ UNCHANGED <<meta_json, disk, c_meta_data, path_issues, i18n_meta, meta_i18n_json>>

\* line 150
CConvert ==
    /\ cpc = "convert"
    /\ i18n_meta' = convert_to_multilingual(c_meta_data)
    /\ cpc' = "save"
    /\ UNCHANGED <<meta_json, disk, c_meta_data, path_issues, response, meta_i18n_json>>

\* lines 153-157: save_meta_json reports a failed write and returns False
CSave ==
    /\ cpc = "save"
    /\ \E written \in BOOLEAN :
          meta_i18n_json' = IF written THEN [ok |-> TRUE, data |-> i18n_meta]
                            ELSE meta_i18n_json
    /\ cpc' = "done"
    /\ UNCHANGED <<meta_json, disk, c_meta_data, path_issues, response, i18n_meta>>

\* convert_to_multilingual, applied to a catalog and to its own result
ConvertOnce ==
    /\ vpc = "input"
    /\ conv_once' = convert_to_multilingual(conv_in)
    /\ vpc' = "once"
    /\ UNCHANGED <<conv_in, conv_twice>>

ConvertTwice ==
    /\ vpc = "once"
    /\ conv_twice' = convert_to_multilingual(conv_once)
    /\ vpc' = "twice"
    /\ UNCHANGED <<conv_in, conv_once>>

\* check_file_paths, applied to a catalog and a file system
CheckPaths ==
    /\ kpc = "input"
    /\ issues' = check_file_paths(chk_meta, I18N_RULES_DIR, chk_disk)
    /\ kpc' = "returned"
    /\ UNCHANGED <<chk_meta, chk_disk>>

-----------------------------------------------------------------------------
(* Inputs of the converter *)

S_N == Str(<<"n">>)

S_M == Str(<<"m">>)

Mapping(zh, en) == [t |-> "dict", zh |-> zh, en |-> en]

P_A == Str(<<"a">>)

P_B == Str(<<"b">>)

P_F == Str(<<"f">>)

P_G == Str(<<"g">>)

FileRec(path, description) == [path |-> path, description |-> description]

ConvFilePool == { FileRec(P_F, S_N), FileRec(P_F, Mapping(S_N, S_M)), FileRec(P_F, Absent) }

RECURSIVE SeqsUpTo(_, _)
SeqsUpTo(S, n) ==
    IF n = 0 THEN { <<>> }
    ELSE SeqsUpTo(S, n - 1) \cup { Append(q, x) : q \in SeqsUpTo(S, n - 1), x \in S }

RuleRec(id, path, name, description, files) ==
    [ id          |-> id,
      path        |-> path,
      name        |-> name,
      description |-> description,
      techStack   |-> [languages |-> <<>>, frameworks |-> <<>>, tools |-> <<>>],
      tags        |-> <<>>,
      files       |-> files ]

ConvHeads == { <<S_N, S_M>>, <<Mapping(S_N, S_M), Mapping(S_M, S_M)>>, <<Absent, S_N>> }

ConvRulePool ==
    { RuleRec(<<"r">>, P_A, h[1], h[2], f) :
          h \in ConvHeads,
          f \in {Absent} \cup { FileList(q) : q \in SeqsUpTo(ConvFilePool, MaxConvFiles) } }

I18nCatalog(rules, langs) ==
    [ t |-> "catalog", rules |-> rules, version |-> <<"1",".","0",".","0">>,
      lastUpdated |-> DEFAULT_DATE, supportedLanguages |-> langs ]

ConvCatalogs ==
    { I18nCatalog(r, l) : r \in SeqsUpTo(ConvRulePool, MaxConvRules),
                          l \in { Absent, Langs(<<"zh">>) } }

\* the directory a and the files a/f and f may or may not be there
DIR_A == PathJoin(I18N_RULES_DIR, <<"a">>)

FILE_A_F == PathJoin(DIR_A, <<"f">>)

FILE_F == PathJoin(I18N_RULES_DIR, <<"f">>)

Disks ==
    { fs \in [dirs : { {I18N_RULES_DIR}, {I18N_RULES_DIR, DIR_A} }, files : SUBSET { FILE_A_F, FILE_F }] :
          FILE_A_F \in fs.files => DIR_A \in fs.dirs }

ChkFileLists ==
    { Absent, FileList(<<>>),
      FileList(<<FileRec(P_F, S_N)>>),
      FileList(<<FileRec(P_G, S_N)>>),
      FileList(<<FileRec(Absent, S_N)>>),
      FileList(<<FileRec(P_F, S_N), FileRec(P_G, S_N)>>),
      FileList(<<FileRec(P_G, S_N), FileRec(P_F, S_N)>>) }

ChkShapes ==
    { RuleRec(<<>>, p, S_N, S_N, f) : p \in { Absent, P_A, P_B, P_F }, f \in ChkFileLists }

\* the entry at position i has the id "r" followed by i
WithIds(shapes) ==
    [i \in 1..Len(shapes) |-> [shapes[i] EXCEPT !.id = <<"r">> \o IntToStr(i)]]

ChkCatalogs ==
    { I18nCatalog(WithIds(q), Absent) : q \in SeqsUpTo(ChkShapes, MaxChkRules) }

MainShapes ==
    { RuleRec(<<>>, P_A, S_N, S_M, FileList(<<FileRec(P_F, S_N)>>)),
      RuleRec(<<>>, P_B, Mapping(S_N, S_M), S_M, Absent),
      RuleRec(<<>>, Absent, S_N, Mapping(S_N, S_M), FileList(<<FileRec(P_G, Mapping(S_N, S_N))>>)),
      RuleRec(<<>>, P_F, Absent, S_N, FileList(<<>>)) }

\* what resources/rules/meta.json may hold: nothing readable, {}, a document
\* without "rules", a catalog
MetaJsonFiles ==
    { [ok |-> FALSE],
      [ok |-> TRUE, data |-> [t |-> "empty"]],
      [ok |-> TRUE, data |-> [t |-> "norules"]] }
    \cup { [ok |-> TRUE, data |-> I18nCatalog(WithIds(q), Absent)] :
               q \in SeqsUpTo(MainShapes, MaxMainRules) }

-----------------------------------------------------------------------------
(* generate_rule_entry, applied to one directory *)

ScannedFileSets ==
    { <<>>,
      <<ScanOne(RULES_DIR, FileWithFrontmatter)>>,
      <<ScanOne(RULES_DIR, FileWithTitle), ScanOne(RULES_DIR, FileWithFrontmatter)>> }

Build ==
    /\ bpc = "input"
    /\ entry' = generate_rule_entry(rule_dir, rule_files)
    /\ clean_name' = CleanName(Basename(rule_dir))
    /\ tech_parts' = Split(CleanName(Basename(rule_dir)), "-")
    /\ bpc' = "built"
    /\ UNCHANGED <<rule_dir, rule_files>>

-----------------------------------------------------------------------------
(* extract_mdc_info, applied to one file *)

Extract ==
    /\ xpc = "input"
    /\ mdc_result' = extract_mdc_info(mdc_file)
    /\ xpc' = "returned"
    /\ UNCHANGED mdc_file

-----------------------------------------------------------------------------
(* Specifications *)

BuilderIdle ==
    /\ bpc = "idle"
    /\ rule_dir = <<>>
    /\ rule_files = <<>>
    /\ clean_name = <<>>
    /\ tech_parts = <<>>
    /\ entry = <<>>

MergerIdle ==
    /\ mpc = "idle"
    /\ metaFile = [ok |-> FALSE]
    /\ rulesRoot = [listable |-> FALSE, items |-> {}]
    /\ meta_data = <<>>
    /\ existing_rule_ids = {}
    /\ new_rules = <<>>
    /\ todo = {}
    /\ loaded_rules = <<>>
    /\ runs = 0

ExtractIdle ==
    /\ xpc = "idle"
    /\ mdc_file = <<>>
    /\ mdc_result = <<>>

ConvertIdle ==
    /\ vpc = "idle"
    /\ conv_in = NotYet
    /\ conv_once = NotYet
    /\ conv_twice = NotYet

CheckIdle ==
    /\ kpc = "idle"
    /\ chk_meta = NotYet
    /\ chk_disk = [dirs |-> {}, files |-> {}]
    /\ issues = <<>>

ConverterIdle ==
    /\ cpc = "idle"
    /\ meta_json = [ok |-> FALSE]
    /\ disk = [dirs |-> {}, files |-> {}]
    /\ c_meta_data = NotYet
    /\ path_issues = <<>>
    /\ response = <<>>
    /\ i18n_meta = NotYet
    /\ meta_i18n_json = [ok |-> FALSE]

InitBuilder ==
    /\ mode = "generate_rule_entry"
    /\ bpc = "input"
    /\ rule_dir \in { PathJoin(RULES_DIR, n) : n \in DirNames }
    /\ rule_files \in ScannedFileSets
    /\ clean_name = <<>>
    /\ tech_parts = <<>>
    /\ entry = <<>>
    /\ MergerIdle /\ ExtractIdle /\ ConvertIdle /\ CheckIdle /\ ConverterIdle

NextBuilder ==
    Build /\ UNCHANGED <<mode, mergerVars, extractVars, convertVars, checkVars, converterVars>>

SpecBuilder == InitBuilder /\ [][NextBuilder]_vars

InitMerger ==
    /\ mode = "merge"
    /\ mpc = "start"
    /\ metaFile \in { [ok |-> FALSE] }
                    \cup { [ok |-> TRUE, data |-> Catalog(r, DEFAULT_DATE)] : r \in RuleSeqs }
    /\ rulesRoot \in { [listable |-> TRUE, items |-> S] : S \in RootListings }
                     \cup { [listable |-> FALSE, items |-> {}] }
    /\ meta_data = <<>>
    /\ existing_rule_ids = {}
    /\ new_rules = <<>>
    /\ todo = {}
    /\ loaded_rules = <<>>
    /\ runs = 0
    /\ BuilderIdle /\ ExtractIdle /\ ConvertIdle /\ CheckIdle /\ ConverterIdle

MergerRest == <<mode, builderVars, extractVars, convertVars, checkVars, converterVars>>

NextMerger ==
    \/ MRead /\ UNCHANGED MergerRest
    \/ MLoopItem /\ UNCHANGED MergerRest
    \/ MFinish /\ UNCHANGED MergerRest
    \/ MRerun /\ UNCHANGED MergerRest

SpecMerger == InitMerger /\ [][NextMerger]_vars

InitExtract ==
    /\ mode = "extract_mdc_info"
    /\ xpc = "input"
    /\ mdc_file \in MdcFiles
    /\ mdc_result = <<>>
    /\ BuilderIdle /\ MergerIdle /\ ConvertIdle /\ CheckIdle /\ ConverterIdle

NextExtract ==
    Extract /\ UNCHANGED <<mode, builderVars, mergerVars, convertVars, checkVars, converterVars>>

SpecExtract == InitExtract /\ [][NextExtract]_vars

InitConvert ==
    /\ mode = "convert_to_multilingual"
    /\ vpc = "input"
    /\ conv_in \in ConvCatalogs
    /\ conv_once = NotYet
    /\ conv_twice = NotYet
    /\ BuilderIdle /\ MergerIdle /\ ExtractIdle /\ CheckIdle /\ ConverterIdle

ConvertRest == <<mode, builderVars, mergerVars, extractVars, checkVars, converterVars>>

NextConvert ==
    \/ ConvertOnce /\ UNCHANGED ConvertRest
    \/ ConvertTwice /\ UNCHANGED ConvertRest

SpecConvert == InitConvert /\ [][NextConvert]_vars

InitCheck ==
    /\ mode = "check_file_paths"
    /\ kpc = "input"
    /\ chk_meta \in ChkCatalogs
    /\ chk_disk \in Disks
    /\ issues = <<>>
    /\ BuilderIdle /\ MergerIdle /\ ExtractIdle /\ ConvertIdle /\ ConverterIdle

NextCheck ==
    CheckPaths /\ UNCHANGED <<mode, builderVars, mergerVars, extractVars, convertVars, converterVars>>

SpecCheck == InitCheck /\ [][NextCheck]_vars

InitConverter ==
    /\ mode = "convert"
    /\ cpc = "load"
    /\ meta_json \in MetaJsonFiles
    /\ disk \in Disks
    /\ c_meta_data = NotYet
    /\ path_issues = <<>>
    /\ response = <<>>
    /\ i18n_meta = NotYet
    /\ meta_i18n_json = [ok |-> FALSE]
    /\ BuilderIdle /\ MergerIdle /\ ExtractIdle /\ ConvertIdle /\ CheckIdle

ConverterRest == <<mode, builderVars, mergerVars, extractVars, convertVars, checkVars>>

NextConverter ==
    \/ CLoad /\ UNCHANGED ConverterRest
    \/ CCheck /\ UNCHANGED ConverterRest
    \/ CPrompt /\ UNCHANGED ConverterRest
    \/ CConvert /\ UNCHANGED ConverterRest
    \/ CSave /\ UNCHANGED ConverterRest

SpecConverter == InitConverter /\ [][NextConverter]_vars

-----------------------------------------------------------------------------
(* Properties of the merge (temp_analyze_rules.py) *)

\* C1: when the ids of the catalog that was read are pairwise distinct, the
\* ids of the catalog the merge writes are pairwise distinct, the appended
\* entries included.  (The statement as claimed; the code does not keep it.)
C1_UniqueIdsAfterMerge ==
    (mpc = "done" /\ DistinctIds(loaded_rules)) => DistinctIds(meta_data.rules)

\* C2: the merge is append-only: the rules that were read are a prefix of the
\* rules that are written, entry for entry, and no appended entry has an id
\* that the catalog read already had.
C2_AppendOnly ==
    mpc = "done" =>
        /\ Len(meta_data.rules) >= Len(loaded_rules)
        /\ SubSeq(meta_data.rules, 1, Len(loaded_rules)) = loaded_rules
        /\ \A i \in (Len(loaded_rules) + 1)..Len(meta_data.rules) :
              meta_data.rules[i].id \notin Ids(loaded_rules)
        /\ metaFile = [ok |-> TRUE, data |-> meta_data]

\* a merge that found entries in the catalog, skipped a directory whose id
\* the catalog had, and appended another
C2_Witness ==
    /\ mpc = "done"
    /\ loaded_rules # <<>>
    /\ Len(meta_data.rules) > Len(loaded_rules)
    /\ \E item \in rulesRoot.items : item.isdir /\ RuleId(item.name) \in Ids(loaded_rules)

\* C10: a second run of the merge over the same directories, on the catalog
\* the first run wrote, appends nothing and leaves rules as it read them.
C10_RerunAddsNothing ==
    (mpc = "done" /\ runs >= 2) =>
        /\ new_rules = <<>>
        /\ meta_data.rules = loaded_rules
        /\ metaFile.data.rules = loaded_rules

\* the second run has ended on a catalog in which the first run left two
\* entries with one id
C10_Witness ==
    /\ mpc = "done"
    /\ runs = 2
    /\ ~DistinctIds(meta_data.rules)
    /\ Cardinality({ item \in rulesRoot.items : item.isdir }) >= 2

-----------------------------------------------------------------------------
(* Properties of generate_rule_entry and extract_tech_stack_from_dirname *)

\* C3: for a directory base name p + '-cursorrules-prompt-file' the entry's id
\* is p and the classifier splits p: both strip the one trailing suffix.
\* (The statement as claimed; line 129 strips every occurrence.)
C3_SuffixStrip ==
    (bpc = "built" /\ EndsWith(Basename(rule_dir), SUFFIX)) =>
        /\ entry.id = SubSeq(Basename(rule_dir), 1, Len(Basename(rule_dir)) - Len(SUFFIX))
        /\ clean_name = SubSeq(Basename(rule_dir), 1, Len(Basename(rule_dir)) - Len(SUFFIX))
        /\ tech_parts = Split(SubSeq(Basename(rule_dir), 1, Len(Basename(rule_dir)) - Len(SUFFIX)), "-")

-----------------------------------------------------------------------------
(* Properties of extract_mdc_info *)

\* the text that follows the front-matter block (all of it when there is none)
Remaining(content) ==
    IF FrontmatterMatch(content).found
    THEN Drop(content, FrontmatterMatch(content).end)
    ELSE content

HasTitleLine(content) ==
    \E i \in 1..Len(Split(Strip(Remaining(content)), "\n")) :
        Strip(Split(Strip(Remaining(content)), "\n")[i]) # <<>>

\* the first non-blank line of the remaining text, # markers and surrounding
\* whitespace stripped
TitleLine(content) ==
    StripHashes(Strip(Split(Strip(Remaining(content)), "\n")
                        [FirstNonBlank(Split(Strip(Remaining(content)), "\n"))]))

YieldsMapping(file) == FrontmatterMatch(file.content).found /\ file.yaml.t = "map"

\* C4: when the leading block is absent or does not give a mapping, the
\* description returned is the first non-blank line of the remaining text,
\* stripped of # markers and whitespace, and the glob is the default.
\* (The statement as claimed; for a block that parses to a value that is no
\* mapping the code returns the empty description.)
C4_FallbackToTitle ==
    (xpc = "returned" /\ mdc_file.readable /\ ~YieldsMapping(mdc_file)) =>
        /\ mdc_result.globs = DEFAULT_GLOBS
        /\ mdc_result.description =
              (IF HasTitleLine(mdc_file.content)
               THEN Str(TitleLine(mdc_file.content)) ELSE Str(<<>>))

\* C5 as claimed: when the leading block parses as a mapping, the description
\* returned is the mapping's description field, or the empty string when it has
\* none, whatever the text below; the glob is the globs field or the default.
C5_MappingCaseAsClaimed ==
    (xpc = "returned" /\ mdc_file.readable /\ YieldsMapping(mdc_file)) =>
        /\ mdc_result.description =
              (IF mdc_file.yaml.description = Absent
               THEN Str(<<>>) ELSE mdc_file.yaml.description)
        /\ mdc_result.globs =
              (IF mdc_file.yaml.globs = Absent THEN DEFAULT_GLOBS ELSE mdc_file.yaml.globs)

\* C5 as amended: when the leading block parses as a mapping, the description
\* returned is the mapping's description field if that is non-empty; if the
\* field is missing, empty or null and the text below has a non-blank line, it
\* is that line's title; otherwise it is the field itself ("" when missing).
\* The glob is the globs field, or the default when the mapping has none.
C5_MappingCase ==
    (xpc = "returned" /\ mdc_file.readable /\ YieldsMapping(mdc_file)) =>
        /\ mdc_result.description =
              (IF mdc_file.yaml.description # Absent /\ Truthy(mdc_file.yaml.description)
               THEN mdc_file.yaml.description
               ELSE IF HasTitleLine(mdc_file.content)
               THEN Str(TitleLine(mdc_file.content))
               ELSE IF mdc_file.yaml.description = Absent
               THEN Str(<<>>)
               ELSE mdc_file.yaml.description)
        /\ mdc_result.globs =
              (IF mdc_file.yaml.globs = Absent THEN DEFAULT_GLOBS ELSE mdc_file.yaml.globs)

\* a mapping without description above a text that has a title
C5_Witness ==
    /\ xpc = "returned"
    /\ mdc_file.readable
    /\ YieldsMapping(mdc_file)
    /\ mdc_file.yaml.description = Absent
    /\ mdc_file.yaml.globs # Absent
    /\ HasTitleLine(mdc_file.content)
    /\ mdc_result.description = Str(<<"T">>)

-----------------------------------------------------------------------------
(* Properties of convert_to_multilingual *)

IsMapping(v) == v # Absent /\ v.t = "dict"

IsPlainStr(v) == v # Absent /\ v.t = "str"

FilesOf(rule) == IF rule.files = Absent THEN <<>> ELSE rule.files.v

\* C6: converting the converted catalog gives the converted catalog again, and
\* a name or description that is a language-keyed mapping already is passed
\* through as it is.
C6_Idempotent ==
    /\ vpc = "twice" => conv_twice = conv_once
    /\ vpc \in {"once", "twice"} =>
          \A i \in 1..Len(conv_in.rules) :
              /\ IsMapping(conv_in.rules[i].name) =>
                    conv_once.rules[i].name = conv_in.rules[i].name
              /\ IsMapping(conv_in.rules[i].description) =>
                    conv_once.rules[i].description = conv_in.rules[i].description
              /\ \A j \in 1..Len(FilesOf(conv_in.rules[i])) :
                    IsMapping(FilesOf(conv_in.rules[i])[j].description) =>
                        FilesOf(conv_once.rules[i])[j].description
                            = FilesOf(conv_in.rules[i])[j].description

\* a catalog with a plain name, a mapping name and a file record has been
\* converted twice
C6_Witness ==
    /\ vpc = "twice"
    /\ \E i \in 1..Len(conv_in.rules) : IsPlainStr(conv_in.rules[i].name)
    /\ \E i \in 1..Len(conv_in.rules) :
          /\ IsMapping(conv_in.rules[i].name)
          /\ \E j \in 1..Len(FilesOf(conv_in.rules[i])) :
                IsMapping(FilesOf(conv_in.rules[i])[j].description)

\* C7: after the conversion every name and description of an entry and every
\* description of a file record that was a plain string s is {zh: s, en: s};
\* no plain string is left in those fields; supportedLanguages is ["zh", "en"].
C7_Wrapping ==
    vpc \in {"once", "twice"} =>
        /\ Len(conv_once.rules) = Len(conv_in.rules)
        /\ conv_once.supportedLanguages = Langs(<<"zh", "en">>)
        /\ \A i \in 1..Len(conv_in.rules) :
              /\ IsPlainStr(conv_in.rules[i].name) =>
                    conv_once.rules[i].name
                        = Mapping(conv_in.rules[i].name, conv_in.rules[i].name)
              /\ IsPlainStr(conv_in.rules[i].description) =>
                    conv_once.rules[i].description
                        = Mapping(conv_in.rules[i].description, conv_in.rules[i].description)
              /\ ~IsPlainStr(conv_once.rules[i].name)
              /\ ~IsPlainStr(conv_once.rules[i].description)
              /\ Len(FilesOf(conv_once.rules[i])) = Len(FilesOf(conv_in.rules[i]))
              /\ \A j \in 1..Len(FilesOf(conv_in.rules[i])) :
                    /\ IsPlainStr(FilesOf(conv_in.rules[i])[j].description) =>
                          FilesOf(conv_once.rules[i])[j].description
                              = Mapping(FilesOf(conv_in.rules[i])[j].description,
                                        FilesOf(conv_in.rules[i])[j].description)
                    /\ ~IsPlainStr(FilesOf(conv_once.rules[i])[j].description)

\* a catalog without supportedLanguages, with an entry whose name and whose
\* file record's description are plain strings, has been converted
C7_Witness ==
    /\ vpc = "once"
    /\ conv_in.supportedLanguages = Absent
    /\ \E i \in 1..Len(conv_in.rules) :
          /\ IsPlainStr(conv_in.rules[i].name)
          /\ IsPlainStr(conv_in.rules[i].description)
          /\ \E j \in 1..Len(FilesOf(conv_in.rules[i])) :
                IsPlainStr(FilesOf(conv_in.rules[i])[j].description)

-----------------------------------------------------------------------------
(* Properties of main of meta_json_i18n_converter.py *)

Converted == i18n_meta # NotYet

SaveCalled == cpc = "done"

SaidYes == response \in { <<"y">>, <<"Y">> }

\* C8: the converted catalog is saved only after the catalog was loaded and,
\* when the path check gave an issue, only after the operator said yes; when
\* loading fails or the operator says anything else there is never a
\* conversion or a save.
C8_Gating ==
    /\ (SaveCalled \/ Converted \/ meta_i18n_json.ok) =>
          /\ meta_json.ok
          /\ c_meta_data = meta_json.data
          /\ (path_issues # <<>> => SaidYes)
    /\ (cpc # "load" /\ ~meta_json.ok) =>
          (cpc = "returned" /\ ~Converted /\ ~meta_i18n_json.ok)
    /\ (cpc \notin {"load", "check", "prompt"} /\ path_issues # <<>> /\ ~SaidYes) =>
          (cpc = "returned" /\ ~Converted /\ ~meta_i18n_json.ok)
    /\ meta_i18n_json.ok => meta_i18n_json.data = convert_to_multilingual(meta_json.data)

\* the path check gave an issue, the operator typed Y, the file was written
C8_Witness ==
    /\ cpc = "done"
    /\ path_issues # <<>>
    /\ response = <<"Y">>
    /\ meta_i18n_json.ok

-----------------------------------------------------------------------------
(* Properties of check_file_paths *)

HasPath(x) == x.path # Absent /\ x.path.t = "str" /\ x.path.v # <<>>

\* the checks of a catalog: <<i, 0>> for the path of entry i, <<i, j>> for the
\* path of its j-th file record
ChecksOf(meta) ==
    { <<i, 0>> : i \in { k \in 1..Len(meta.rules) : HasPath(meta.rules[k]) } }
    \cup UNION { { <<i, j>> : j \in { k \in 1..Len(FilesOf(meta.rules[i])) :
                                          HasPath(FilesOf(meta.rules[i])[k]) } } :
                 i \in 1..Len(meta.rules) }

\* where the check c looks
Target(meta, fs, c) ==
    IF c[2] = 0
    THEN I18N_RULES_DIR \o <<"/">> \o meta.rules[c[1]].path.v
    ELSE IF HasPath(meta.rules[c[1]])
            /\ (I18N_RULES_DIR \o <<"/">> \o meta.rules[c[1]].path.v) \in fs.dirs
    THEN I18N_RULES_DIR \o <<"/">> \o meta.rules[c[1]].path.v \o <<"/">>
         \o FilesOf(meta.rules[c[1]])[c[2]].path.v
    ELSE I18N_RULES_DIR \o <<"/">> \o FilesOf(meta.rules[c[1]])[c[2]].path.v

FailingChecks(meta, fs) ==
    { c \in ChecksOf(meta) : Target(meta, fs, c) \notin (fs.dirs \cup fs.files) }

\* catalog order
Before(c, d) == c[1] < d[1] \/ (c[1] = d[1] /\ c[2] < d[2])

Position(meta, fs, c) == 1 + Cardinality({ d \in FailingChecks(meta, fs) : Before(d, c) })

IssueOf(meta, c) ==
    IF c[2] = 0 THEN PathIssue(meta.rules[c[1]])
    ELSE FileIssue(meta.rules[c[1]], FilesOf(meta.rules[c[1]])[c[2]])

\* C9: the list returned holds one issue for each failing check and nothing
\* else, in catalog order; an entry whose path does not exist below the base
\* directory is named, by id and path, in exactly one issue.
C9_AllIssues ==
    kpc = "returned" =>
        /\ Len(issues) = Cardinality(FailingChecks(chk_meta, chk_disk))
        /\ \A c \in FailingChecks(chk_meta, chk_disk) :
              issues[Position(chk_meta, chk_disk, c)] = IssueOf(chk_meta, c)
        /\ \A i \in 1..Len(chk_meta.rules) :
              (HasPath(chk_meta.rules[i])
               /\ (I18N_RULES_DIR \o <<"/">> \o chk_meta.rules[i].path.v)
                      \notin (chk_disk.dirs \cup chk_disk.files)) =>
                  Cardinality({ k \in 1..Len(issues) :
                                    issues[k] = PathIssue(chk_meta.rules[i]) }) = 1

\* two entries: the first with a missing path and a missing file, the second
\* in a directory that is there, with one file there and one missing
C9_Witness ==
    /\ kpc = "returned"
    /\ Len(issues) = 3
    /\ Len(chk_meta.rules) = 2
    /\ chk_meta.rules[1].path = P_B
    /\ chk_meta.rules[2].path = P_A
    /\ DIR_A \in chk_disk.dirs
    /\ FILE_A_F \in chk_disk.files
    /\ Len(FilesOf(chk_meta.rules[2])) = 2
    /\ issues[3] = FileIssue(chk_meta.rules[2], FileRec(P_G, S_N))

=============================================================================
